---- MODULE Spec2Model ----
(***************************************************************************)
(* Service Dashboard: the daily-report archive and its catch-up handler,   *)
(* the end-of-day summary handler, the row locator and the three           *)
(* stage-update operations on the row store.                               *)
(*                                                                         *)
(* Text values are sequences of one-character strings, so that             *)
(* str.strip() and str.lower() are computed rather than assumed.           *)
(* Calendar dates are day numbers; strftime("%Y-%m-%d") is an              *)
(* order-preserving injection of dates into strings, so the date key of    *)
(* an archive row is kept as the day number it denotes.  Timestamps are    *)
(* counted in ticks, TicksPerDay ticks to the day; NaT is the null.        *)
(***************************************************************************)
EXTENDS Integers, Sequences, FiniteSets, TLC

VARIABLES today, table, archive, eodArchive, sheet, lastOp, calls

vars == <<today, table, archive, eodArchive, sheet, lastOp, calls>>

(***************************************************************************)
(* Bounds of the model                                                     *)
(***************************************************************************)
\* The day the session starts, and how many days it lasts in each specification.
StartDay == 2
MaxDay == 33
ShortDays == 2
EodDays == 1
TicksPerDay == 2
DetectDays == 4
MaxThreshold == 3
ReportDays == 2

(***************************************************************************)
(* Text                                                                    *)
(***************************************************************************)
sEmpty == << >>
sNA == <<"N", "/", "A">>
sna == <<"n", "/", "a">>
sYes == <<"Y", "e", "s">>
syes == <<"y", "e", "s">>
sNo == <<"N", "o">>
sno == <<"n", "o">>

NaT == -1

lowerChar(c) ==
    CASE c = "A" -> "a"
      [] c = "N" -> "n"
      [] c = "O" -> "o"
      [] c = "R" -> "r"
      [] c = "S" -> "s"
      [] c = "Y" -> "y"
      [] c = "E" -> "e"
      [] OTHER -> c

lower(s) == [i \in 1..Len(s) |-> lowerChar(s[i])]

RECURSIVE lstrip(_)
lstrip(s) == IF s # << >> /\ Head(s) = " " THEN lstrip(Tail(s)) ELSE s

RECURSIVE rstrip(_)
rstrip(s) ==
    IF s # << >> /\ s[Len(s)] = " " THEN rstrip(SubSeq(s, 1, Len(s) - 1)) ELSE s

strip(s) == rstrip(lstrip(s))

norm(s) == lower(strip(s))

dateOf(ts) == ts \div TicksPerDay

(***************************************************************************)
(* Single-day report generator                                             *)
(***************************************************************************)
onDate(ts, D) == ts # NaT /\ dateOf(ts) = D

\* Mutant: the QA date is not compared with the report date.
needs_shipping_filter_any_day(r, D) ==
    /\ lower(r.EstimateComplete) = syes
    /\ lower(r.EstimateApproved) = syes
    /\ lower(r.QAApproved) = syes
    /\ lower(r.Shipped) \in {sno, sna}
    /\ r.QAApprovedTime # NaT

\* Mutant: the estimates completed on the report date itself are taken.
needs_estimate_filter_same_day(r, D) ==
    /\ lower(r.EstimateComplete) = syes
    /\ lower(r.EstimateSentToEmail) = sna
    /\ onDate(r.EstimateCompleteTime, D)

\* Mutant: an approved estimate is still reminded of.
needs_reminder_filter_approved(r, D) ==
    /\ lower(r.EstimateSentToEmail) # sna
    /\ lower(r.ReminderCompleted) \in {sno, sna}
    /\ onDate(r.EstimateSentTime, D - 2)

needs_shipping_filter(r, D) ==
    /\ lower(r.EstimateComplete) = syes
    /\ lower(r.EstimateApproved) = syes
    /\ lower(r.QAApproved) = syes
    /\ lower(r.Shipped) \in {sno, sna}
    /\ onDate(r.QAApprovedTime, D)

needs_estimate_filter(r, D) ==
    /\ lower(r.EstimateComplete) = syes
    /\ lower(r.EstimateSentToEmail) = sna
    /\ onDate(r.EstimateCompleteTime, D - 1)

needs_reminder_filter(r, D) ==
    /\ lower(r.EstimateSentToEmail) # sna
    /\ lower(r.ReminderCompleted) \in {sno, sna}
    /\ lower(r.EstimateApproved) \in {sno, sna}
    /\ onDate(r.EstimateSentTime, D - 2)

\* Mutant: the shipping list is made for the current date of the session.
generate_single_day_report_content_today(df, D) ==
    LET shipping_df == SelectSeq(df, LAMBDA r : needs_shipping_filter(r, today))
    IN  [date |-> D,
         needs_shipping |->
            [i \in 1..Len(shipping_df) |->
                [RMA |-> shipping_df[i].RMA, SN |-> shipping_df[i].SN,
                 SPC |-> shipping_df[i].SPC]],
         needs_estimate_creation |-> << >>,
         needs_reminder |-> << >>]

generate_single_day_report_content(df, D) ==
    LET shipping_df == SelectSeq(df, LAMBDA r : needs_shipping_filter(r, D))
        estimate_df == SelectSeq(df, LAMBDA r : needs_estimate_filter(r, D))
        reminder_df == SelectSeq(df, LAMBDA r : needs_reminder_filter(r, D))
    IN  [date |-> D,
         needs_shipping |->
            [i \in 1..Len(shipping_df) |->
                [RMA |-> shipping_df[i].RMA, SN |-> shipping_df[i].SN,
                 SPC |-> shipping_df[i].SPC]],
         needs_estimate_creation |->
            [i \in 1..Len(estimate_df) |->
                [RMA |-> estimate_df[i].RMA, SN |-> estimate_df[i].SN,
                 SPC |-> estimate_df[i].SPC, EstCompleteDate |-> D - 1]],
         needs_reminder |->
            [i \in 1..Len(reminder_df) |->
                [RMA |-> reminder_df[i].RMA, SN |-> reminder_df[i].SN,
                 SPC |-> reminder_df[i].SPC,
                 EstimateSentToEmail |-> reminder_df[i].EstimateSentToEmail,
                 EstimateSentTime |-> dateOf(reminder_df[i].EstimateSentTime)]]]

(***************************************************************************)
(* Daily-report archive                                                    *)
(***************************************************************************)
RECURSIVE insertDesc(_, _)
insertDesc(sorted, r) ==
    IF sorted = << >> THEN <<r>>
    ELSE IF Head(sorted).date >= r.date
         THEN <<Head(sorted)>> \o insertDesc(Tail(sorted), r)
         ELSE <<r>> \o sorted

RECURSIVE sortDesc(_)
sortDesc(rows) ==
    IF rows = << >> THEN << >>
    ELSE insertDesc(sortDesc(SubSeq(rows, 1, Len(rows) - 1)), rows[Len(rows)])

\* A failed read is reported and yields the empty list.
get_archived_reports_from_gsheet(ws, readOk) ==
    IF readOk THEN sortDesc(ws) ELSE << >>

\* Mutant: the date of the archive's first row is never read.
get_last_report_date_from_archive_default(archived_reports, tdy) == tdy - 1

get_last_report_date_from_archive(archived_reports, tdy) ==
    IF archived_reports = << >> THEN tdy - 1 ELSE archived_reports[1].date

existing_dates(ws) == {ws[i].date : i \in 1..Len(ws)}

\* The result of a save: the boolean returned, whether an error was reported,
\* and the worksheet afterwards.
\* Mutant: the date is not looked up among the existing dates.
save_report_to_gsheet_archive_unchecked(ws, report_data, up) ==
    IF ~up THEN [ok |-> FALSE, error |-> TRUE, ws |-> ws]
    ELSE [ok |-> TRUE, error |-> FALSE, ws |-> Append(ws, report_data)]

\* Mutant: a save that meets an I/O failure is made again, and then succeeds.
save_report_to_gsheet_archive_retried(ws, report_data, up) ==
    IF report_data.date \in existing_dates(ws)
    THEN [ok |-> FALSE, error |-> ~up, ws |-> ws]
    ELSE [ok |-> TRUE, error |-> ~up, ws |-> Append(ws, report_data)]

save_report_to_gsheet_archive(ws, report_data, up) ==
    IF ~up THEN [ok |-> FALSE, error |-> TRUE, ws |-> ws]
    ELSE IF report_data.date \in existing_dates(ws)
         THEN [ok |-> FALSE, error |-> FALSE, ws |-> ws]
         ELSE [ok |-> TRUE, error |-> FALSE, ws |-> Append(ws, report_data)]

\* Mutant: a report of a date already present replaces the stored row.
save_report_to_archive_overwrite(ws, report_data, up) ==
    IF ~up THEN [ok |-> FALSE, error |-> TRUE, ws |-> ws]
    ELSE IF report_data.date \in existing_dates(ws)
         THEN [ok |-> FALSE, error |-> FALSE,
               ws |-> [i \in 1..Len(ws) |->
                        IF ws[i].date = report_data.date THEN report_data ELSE ws[i]]]
         ELSE [ok |-> TRUE, error |-> FALSE, ws |-> Append(ws, report_data)]

save_report_to_archive(ws, report_data, up) ==
    IF ~up THEN [ok |-> FALSE, error |-> TRUE, ws |-> ws]
    ELSE IF report_data.date \in existing_dates(ws)
         THEN [ok |-> FALSE, error |-> FALSE, ws |-> ws]
         ELSE [ok |-> TRUE, error |-> FALSE, ws |-> Append(ws, report_data)]

(***************************************************************************)
(* "Generate Daily Status Report(s)": the catch-up handler                 *)
(***************************************************************************)
MAX_CATCH_UP_DAYS == 30

only(cond, value) == IF cond THEN {value} ELSE {}

\* Mutant: the loop is left after its first pass.
catch_up_loop_one_day(df, cursor, first, tdy, ws, generated, failDays) ==
    LET report_data == generate_single_day_report_content(df, cursor)
        saved == save_report_to_gsheet_archive(ws, report_data, cursor \notin failDays)
        after_save(reports) ==
            [ws |-> saved.ws, generated |-> reports, overflow |-> FALSE, errors |-> {},
             cursor |-> cursor]
        rest == IF saved.ok THEN after_save(Append(generated, report_data))
                ELSE after_save(generated)
    IN  [rest EXCEPT !.errors = @ \cup only(saved.error, cursor)]

\* Mutant: the loop is left on reaching today, before today's report is made.
RECURSIVE catch_up_loop_before_today(_, _, _, _, _, _, _)
catch_up_loop_before_today(df, cursor, first, tdy, ws, generated, failDays) ==
    LET report_data == generate_single_day_report_content(df, cursor)
        saved == save_report_to_gsheet_archive(ws, report_data, cursor \notin failDays)
        after_save(reports) ==
            IF cursor = tdy
            THEN [ws |-> ws, generated |-> generated, overflow |-> FALSE, errors |-> {},
                  cursor |-> cursor]
            ELSE IF (cursor + 1) - first > MAX_CATCH_UP_DAYS
                 THEN [ws |-> saved.ws,
                       generated |-> reports, overflow |-> TRUE, errors |-> {}, cursor |-> cursor + 1]
                 ELSE catch_up_loop_before_today(df, cursor + 1, first, tdy, saved.ws, reports,
                                                failDays)
        rest == IF saved.ok THEN after_save(Append(generated, report_data))
                ELSE after_save(generated)
    IN  [rest EXCEPT !.errors = @ \cup only(saved.error, cursor)]

\* Mutant: on overflow the rows this run appended are taken back.
RECURSIVE catch_up_loop_rollback(_, _, _, _, _, _, _)
catch_up_loop_rollback(df, cursor, first, tdy, ws, generated, failDays) ==
    LET report_data == generate_single_day_report_content(df, cursor)
        saved == save_report_to_gsheet_archive(ws, report_data, cursor \notin failDays)
        after_save(reports) ==
            IF cursor = tdy
            THEN [ws |-> saved.ws, generated |-> reports, overflow |-> FALSE, errors |-> {},
                  cursor |-> cursor]
            ELSE IF (cursor + 1) - first > MAX_CATCH_UP_DAYS
                 THEN [ws |-> SelectSeq(saved.ws, LAMBDA r : r.date < first),
                       generated |-> reports, overflow |-> TRUE, errors |-> {}, cursor |-> cursor + 1]
                 ELSE catch_up_loop_rollback(df, cursor + 1, first, tdy, saved.ws, reports,
                                            failDays)
        rest == IF saved.ok THEN after_save(Append(generated, report_data))
                ELSE after_save(generated)
    IN  [rest EXCEPT !.errors = @ \cup only(saved.error, cursor)]

\* Mutant: the loop has no cap on the days of one run.
RECURSIVE catch_up_loop_uncapped(_, _, _, _, _, _, _)
catch_up_loop_uncapped(df, cursor, first, tdy, ws, generated, failDays) ==
    LET report_data == generate_single_day_report_content(df, cursor)
        saved == save_report_to_gsheet_archive(ws, report_data, cursor \notin failDays)
        after_save(reports) ==
            IF cursor = tdy
            THEN [ws |-> saved.ws, generated |-> reports, overflow |-> FALSE, errors |-> {},
                  cursor |-> cursor]
            ELSE catch_up_loop_uncapped(df, cursor + 1, first, tdy, saved.ws, reports,
                                        failDays)
        rest == IF saved.ok THEN after_save(Append(generated, report_data))
                ELSE after_save(generated)
    IN  [rest EXCEPT !.errors = @ \cup only(saved.error, cursor)]

\* One pass of the while loop for current_date_to_report = cursor, then the
\* rest of the loop.  failDays are the dates whose save meets an I/O failure.
RECURSIVE catch_up_loop(_, _, _, _, _, _, _)
catch_up_loop(df, cursor, first, tdy, ws, generated, failDays) ==
    LET report_data == generate_single_day_report_content(df, cursor)
        saved == save_report_to_gsheet_archive(ws, report_data, cursor \notin failDays)
        after_save(reports) ==
            IF cursor = tdy
            THEN [ws |-> saved.ws, generated |-> reports, overflow |-> FALSE, errors |-> {},
                  cursor |-> cursor]
            ELSE IF (cursor + 1) - first > MAX_CATCH_UP_DAYS
                 THEN [ws |-> saved.ws,
                       generated |-> reports, overflow |-> TRUE, errors |-> {}, cursor |-> cursor + 1]
                 ELSE catch_up_loop(df, cursor + 1, first, tdy, saved.ws, reports,
                                   failDays)
        rest == IF saved.ok THEN after_save(Append(generated, report_data))
                ELSE after_save(generated)
    IN  [rest EXCEPT !.errors = @ \cup only(saved.error, cursor)]

NullReport ==
    [date |-> -1, needs_shipping |-> << >>, needs_estimate_creation |-> << >>,
     needs_reminder |-> << >>]

NullSummary ==
    [date |-> -1, estimate_tasks |-> << >>, reminder_tasks |-> << >>,
     shipping_tasks |-> << >>, adhoc_shipped_today |-> << >>]

\* The record of the most recent operation and of what it returned or showed.
Idle ==
    [op |-> "init", outcome |-> "", ok |-> FALSE, error |-> FALSE, up |-> TRUE,
     last |-> -1, cursor |-> -1, report |-> NullReport, generated |-> << >>,
     prev |-> "", summary |-> NullSummary, query |-> <<sEmpty, sEmpty>>, row |-> -1,
     rows |-> << >>, threshold |-> -1, now |-> -1, failed |-> {}]

\* What this catch-up run follows directly: the outcome of a catch-up run that
\* met no I/O failure, when that is the operation just before it.
Prev == IF lastOp.op = "catchup" /\ lastOp.up THEN lastOp.outcome ELSE ""

GenerateDailyReports(readOk, failDays) ==
    LET archived_daily_reports == get_archived_reports_from_gsheet(archive, readOk)
        last_gen_date == get_last_report_date_from_archive(archived_daily_reports, today)
        first == last_gen_date + 1
        up == readOk /\ failDays = {}
        run == catch_up_loop(table, first, first, today, archive, << >>, failDays)
        base == [Idle EXCEPT !.op = "catchup", !.up = up, !.error = ~readOk,
                             !.last = last_gen_date, !.prev = Prev]
    IN  /\ IF table = << >>
           THEN /\ archive' = archive
                /\ lastOp' = [base EXCEPT !.outcome = "nodata"]
           ELSE IF first > today
                THEN /\ archive' = archive
                     /\ lastOp' = [base EXCEPT !.outcome = "uptodate"]
                ELSE /\ archive' = run.ws
                     /\ lastOp' = [base EXCEPT
                            !.outcome = IF run.overflow THEN "overflow" ELSE "done",
                            !.ok = run.generated # << >>,
                            !.error = run.overflow \/ ~readOk \/ run.errors # {},
                            !.failed = run.errors,
                            !.cursor = run.cursor,
                            !.generated = run.generated]
        /\ UNCHANGED <<today, table, eodArchive, sheet, calls>>

DayAdvance(maxDay) ==
    /\ today < maxDay
    /\ today' = today + 1
    /\ lastOp' = [Idle EXCEPT !.op = "tick"]
    /\ UNCHANGED <<table, archive, eodArchive, sheet, calls>>

\* The application is not opened for more than MAX_CATCH_UP_DAYS + 1 days.
LongAbsence(maxDay) ==
    /\ today + MAX_CATCH_UP_DAYS + 2 <= maxDay
    /\ today' = today + MAX_CATCH_UP_DAYS + 2
    /\ lastOp' = [Idle EXCEPT !.op = "tick"]
    /\ UNCHANGED <<table, archive, eodArchive, sheet, calls>>

(***************************************************************************)
(* The same handler run by two browser sessions at once.  Each session is  *)
(* its own run of the script; the archive worksheet is the only thing they *)
(* share.  A save is two round trips to the worksheet, col_values(1) and   *)
(* append_row, and nothing holds the worksheet between them, so the steps  *)
(* of the two sessions interleave at every round trip.                     *)
(***************************************************************************)
Sessions == {1, 2}

\* A session's position in the handler: the round trip it makes next, the
\* locals today, last_gen_date_from_archive + 1 and current_date_to_report,
\* and the existing_dates its pending save has read.
NoCall == [pc |-> "idle", tdy |-> -1, first |-> -1, cursor |-> -1, dates |-> {}]

NoCalls == [s \in Sessions |-> NoCall]

\* The loop after the save of current_date_to_report = call.cursor.
next_pass(call) ==
    IF call.cursor = call.tdy THEN NoCall
    ELSE IF (call.cursor + 1) - call.first > MAX_CATCH_UP_DAYS THEN NoCall
         ELSE [call EXCEPT !.pc = "read", !.cursor = @ + 1, !.dates = {}]

\* Mutant: every date is taken to be absent from the dates read.
date_is_new_always(dates, date) == TRUE

\* if report_data['date'] in existing_dates: return False
date_is_new(dates, date) == date \notin dates

\* The button is pressed in session s: the archive list is read and the loop
\* is entered, unless there is no data or the archive is up to date.
BeginCatchUp(s) ==
    LET archived_daily_reports == get_archived_reports_from_gsheet(archive, TRUE)
        last_gen_date == get_last_report_date_from_archive(archived_daily_reports, today)
        first == last_gen_date + 1
    IN  /\ calls[s].pc = "idle"
        /\ calls' = [calls EXCEPT ![s] =
                IF table = << >> \/ first > today THEN NoCall
                ELSE [pc |-> "read", tdy |-> today, first |-> first, cursor |-> first,
                      dates |-> {}]]
        /\ lastOp' = [Idle EXCEPT !.op = "begin", !.last = last_gen_date]
        /\ UNCHANGED <<today, table, archive, eodArchive, sheet>>

\* First round trip of the save in session s: the dates of column 1 are read
\* and the date of the report is looked up among them.
ReadExistingDates(s) ==
    LET call == calls[s]
        dates == existing_dates(archive)
    IN  /\ call.pc = "read"
        /\ calls' = [calls EXCEPT ![s] =
                IF date_is_new(dates, call.cursor)
                THEN [call EXCEPT !.pc = "append", !.dates = dates]
                ELSE next_pass(call)]
        /\ lastOp' = [Idle EXCEPT !.op = "dates", !.cursor = call.cursor]
        /\ UNCHANGED <<today, table, archive, eodArchive, sheet>>

\* Second round trip of the save in session s: the row is appended.
AppendRow(s) ==
    LET call == calls[s]
    IN  /\ call.pc = "append"
        /\ archive' = Append(archive, generate_single_day_report_content(table, call.cursor))
        /\ calls' = [calls EXCEPT ![s] = next_pass(call)]
        /\ lastOp' = [Idle EXCEPT !.op = "append", !.ok = TRUE, !.cursor = call.cursor]
        /\ UNCHANGED <<today, table, eodArchive, sheet>>

(***************************************************************************)
(* The record table of the session and its updates                         *)
(***************************************************************************)
sR1 == <<"R", "1">>
sR2 == <<"R", "2">>
sS1 == <<"S", "1">>
sS2 == <<"S", "2">>
sSPC == <<"P">>
sMail == <<"e", "@">>

nowTick == today * TicksPerDay

startTick == StartDay * TicksPerDay

\* QA approved on the start day, not shipped.
RecordA ==
    [RMA |-> sR1, SN |-> sS1, SPC |-> sSPC,
     EstimateComplete |-> sYes, EstimateCompleteTime |-> 0,
     EstimateApproved |-> sYes,
     EstimateSentToEmail |-> sMail, EstimateSentTime |-> 0,
     ReminderCompleted |-> sNo,
     QAApproved |-> sYes, QAApprovedTime |-> startTick,
     Shipped |-> sNo, ShippedTime |-> NaT]

\* Estimate completed the day before the start day, not sent; no RMA yet.
RecordB ==
    [RMA |-> sNA, SN |-> sS2, SPC |-> sSPC,
     EstimateComplete |-> sYes, EstimateCompleteTime |-> startTick - TicksPerDay,
     EstimateApproved |-> sNo,
     EstimateSentToEmail |-> sNA, EstimateSentTime |-> NaT,
     ReminderCompleted |-> sNo,
     QAApproved |-> sNo, QAApprovedTime |-> NaT,
     Shipped |-> sNo, ShippedTime |-> NaT]

\* Estimate sent two days before the start day, no reminder, not approved.
RecordC ==
    [RMA |-> sR2, SN |-> sS1, SPC |-> sSPC,
     EstimateComplete |-> sYes, EstimateCompleteTime |-> 0,
     EstimateApproved |-> sNo,
     EstimateSentToEmail |-> sMail, EstimateSentTime |-> startTick - 2 * TicksPerDay,
     ReminderCompleted |-> sNo,
     QAApproved |-> sNo, QAApprovedTime |-> NaT,
     Shipped |-> sNo, ShippedTime |-> NaT]

InitTable == <<RecordA, RecordB, RecordC>>

sR3 == <<"R", "3">>

RMAEdits == {sR3, <<"r", "1", " ">>}

\* The rows a reload can bring for row r after one update of the row store:
\* the unit shipped, the estimate sent, the reminder made, the RMA reassigned.
updated_rows(r) ==
    only(lower(r.QAApproved) = syes /\ lower(r.Shipped) # syes,
         [r EXCEPT !.Shipped = sYes, !.ShippedTime = nowTick])
    \cup
    only(lower(r.EstimateComplete) = syes /\ lower(r.EstimateSentToEmail) = sna,
         [r EXCEPT !.EstimateSentToEmail = sMail, !.EstimateSentTime = nowTick])
    \cup
    only(/\ lower(r.EstimateSentToEmail) # sna
         /\ lower(r.ReminderCompleted) # syes
         /\ lower(r.EstimateApproved) # syes
         /\ r.EstimateSentTime # NaT
         /\ dateOf(r.EstimateSentTime) + 2 <= today,
         [r EXCEPT !.ReminderCompleted = sYes])
    \cup
    {[r EXCEPT !.RMA = v] :
        v \in (IF norm(r.RMA) = norm(sR1) THEN RMAEdits \ {r.RMA} ELSE {})}

\* "Refresh Data from Google Sheet" after one row of the sheet was updated.
RefreshData ==
    /\ \E i \in 1..Len(table) : \E r \in updated_rows(table[i]) :
            table' = [table EXCEPT ![i] = r]
    /\ lastOp' = [Idle EXCEPT !.op = "refresh"]
    /\ UNCHANGED <<today, archive, eodArchive, sheet, calls>>

(***************************************************************************)
(* "Generate End of Day Summary"                                           *)
(***************************************************************************)
\* The records of the live table with the task's identity.
record_df(live, task) ==
    SelectSeq(live, LAMBDA r : norm(r.RMA) = norm(task.RMA) /\ norm(r.SN) = norm(task.SN))

\* Mutant: the test of the e-mail column is turned round.
is_completed_inverted(current_status_val, status_col, completion_value) ==
    \/ status_col = "EstimateSentToEmail" /\ current_status_val = sna
    \/ status_col # "EstimateSentToEmail" /\ current_status_val = completion_value

is_completed(current_status_val, status_col, completion_value) ==
    \/ status_col = "EstimateSentToEmail" /\ current_status_val # sna
    \/ status_col # "EstimateSentToEmail" /\ current_status_val = completion_value

\* Mutant: a task whose record is missing counts as done.
task_status_default_completed(live, task, status_col, completion_value) ==
    LET found == record_df(live, task)
    IN  IF found = << >> \/ is_completed(lower(found[1][status_col]), status_col,
                                          completion_value)
        THEN "Completed" ELSE "Pending"

task_status(live, task, status_col, completion_value) ==
    LET found == record_df(live, task)
    IN  IF found # << >> /\ is_completed(lower(found[1][status_col]), status_col,
                                          completion_value)
        THEN "Completed" ELSE "Pending"

task_summary(live, tasks, status_col, completion_value, description) ==
    [i \in 1..Len(tasks) |->
        [RMA |-> tasks[i].RMA, SN |-> tasks[i].SN, SPC |-> tasks[i].SPC,
         Status |-> task_status(live, tasks[i], status_col, completion_value),
         OriginalTask |-> description]]

\* Mutant: the identities are compared as written, not trimmed and lower-cased.
adhoc_shipped_raw(live, daily_report, tdy) ==
    LET adhoc_shipped_df ==
            SelectSeq(live, LAMBDA r : lower(r.Shipped) = syes /\ onDate(r.ShippedTime, tdy))
        tasks == daily_report.needs_shipping
        daily_shipping_rmas_sns == {<<tasks[i].RMA, tasks[i].SN>> : i \in 1..Len(tasks)}
        adhoc == SelectSeq(adhoc_shipped_df,
                    LAMBDA r : <<r.RMA, r.SN>> \notin daily_shipping_rmas_sns)
    IN  [i \in 1..Len(adhoc) |->
            [RMA |-> adhoc[i].RMA, SN |-> adhoc[i].SN, SPC |-> adhoc[i].SPC,
             ShippedTime |-> adhoc[i].ShippedTime]]

adhoc_shipped(live, daily_report, tdy) ==
    LET adhoc_shipped_df ==
            SelectSeq(live, LAMBDA r : lower(r.Shipped) = syes /\ onDate(r.ShippedTime, tdy))
        tasks == daily_report.needs_shipping
        daily_shipping_rmas_sns ==
            {<<norm(tasks[i].RMA), norm(tasks[i].SN)>> : i \in 1..Len(tasks)}
        adhoc == SelectSeq(adhoc_shipped_df,
                    LAMBDA r : <<norm(r.RMA), norm(r.SN)>> \notin daily_shipping_rmas_sns)
    IN  [i \in 1..Len(adhoc) |->
            [RMA |-> adhoc[i].RMA, SN |-> adhoc[i].SN, SPC |-> adhoc[i].SPC,
             ShippedTime |-> adhoc[i].ShippedTime]]

end_of_day_summary(live, daily_report, tdy) ==
    [date |-> tdy,
     estimate_tasks |->
        task_summary(live, daily_report.needs_estimate_creation, "EstimateSentToEmail",
                     sna, "Create/Send Estimate"),
     reminder_tasks |->
        task_summary(live, daily_report.needs_reminder, "ReminderCompleted", syes,
                     "Send Reminder"),
     shipping_tasks |->
        task_summary(live, daily_report.needs_shipping, "Shipped", syes, "Ship Item"),
     adhoc_shipped_today |-> adhoc_shipped(live, daily_report, tdy)]

\* The end-of-day branch of the save: a summary of a date already present
\* replaces the row of that date, any other is appended.
save_summary_to_gsheet_archive(ws, summary_data, up) ==
    IF ~up THEN [ok |-> FALSE, error |-> TRUE, ws |-> ws]
    ELSE IF summary_data.date \in existing_dates(ws)
         THEN LET row == CHOOSE i \in 1..Len(ws) :
                            /\ ws[i].date = summary_data.date
                            /\ \A j \in 1..(i - 1) : ws[j].date # summary_data.date
              IN  [ok |-> TRUE, error |-> FALSE, ws |-> [ws EXCEPT ![row] = summary_data]]
         ELSE [ok |-> TRUE, error |-> FALSE, ws |-> Append(ws, summary_data)]

\* Mutant: the latest archived report is taken, whatever its date.
todays_archived_report_latest(archived_reports, tdy) ==
    SubSeq(archived_reports, 1, IF archived_reports = << >> THEN 0 ELSE 1)

todays_archived_report(archived_reports, tdy) ==
    SelectSeq(archived_reports, LAMBDA rpt : rpt.date = tdy)

GenerateEndOfDaySummary(readOk, saveUp) ==
    LET archived_daily_reports == get_archived_reports_from_gsheet(archive, readOk)
        todays == todays_archived_report(archived_daily_reports, today)
        summary_data == end_of_day_summary(table, todays[1], today)
        saved == save_summary_to_gsheet_archive(eodArchive, summary_data, saveUp)
        base == [Idle EXCEPT !.op = "eod", !.up = readOk /\ saveUp]
    IN  /\ IF todays = << >>
           THEN /\ eodArchive' = eodArchive
                /\ lastOp' = [base EXCEPT !.outcome = "noreport"]
           ELSE IF table = << >>
                THEN /\ eodArchive' = eodArchive
                     /\ lastOp' = [base EXCEPT !.outcome = "nodata"]
                ELSE /\ eodArchive' = saved.ws
                     /\ lastOp' = [base EXCEPT !.outcome = "done", !.ok = saved.ok,
                                                !.error = saved.error,
                                                !.report = todays[1],
                                                !.summary = summary_data]
        /\ UNCHANGED <<today, table, archive, sheet, calls>>

(***************************************************************************)
(* A direct call of the archive store for the report of date D             *)
(***************************************************************************)
SaveReport(D, up) ==
    LET report_data == generate_single_day_report_content(table, D)
        saved == save_report_to_archive(archive, report_data, up)
    IN  /\ archive' = saved.ws
        /\ lastOp' = [Idle EXCEPT !.op = "save", !.up = up, !.ok = saved.ok,
                                   !.error = saved.error, !.report = report_data]
        /\ UNCHANGED <<today, table, eodArchive, sheet, calls>>

(***************************************************************************)
(* The row store: the worksheet, the row locator, the stage updates        *)
(***************************************************************************)
EXPECTED_COLUMN_ORDER ==
    <<"RMA", "SPC Code", "Part Number", "S/N", "Description", "Fault Comments",
      "Resolution Comments", "Sender", "Estimate Complete Time", "Estimate Complete",
      "Estimate Approved", "Estimate Approved Time", "Estimate Sent To Email",
      "Estimate Sent Time", "Reminder Completed", "Reminder Completed Time",
      "Reminder Contact Method", "QA Approved", "QA Approved Time", "Shipped",
      "Shipped Time">>

\* headers.index(name), 0-based; -1 stands for the ValueError.
index(headers, name) ==
    IF \E j \in 1..Len(headers) : headers[j] = name
    THEN (CHOOSE j \in 1..Len(headers) :
            headers[j] = name /\ \A k \in 1..(j - 1) : headers[k] # name) - 1
    ELSE -1

\* The cell of a row at a 0-based column, "" for a row too short to have it.
cell_or_empty(row, idx) == IF Len(row) > idx THEN norm(row[idx + 1]) ELSE sEmpty

\* Mutant: a lookup without RMA accepts a row whatever its RMA.
row_matches_any_rma(row, rma_col_idx, sn_col_idx, search_rma, search_sn) ==
    LET search_by_sn_only == norm(search_rma) \in {sna, sEmpty}
        rma_val == cell_or_empty(row, rma_col_idx)
        sn_val == cell_or_empty(row, sn_col_idx)
    IN  IF search_by_sn_only
        THEN sn_val = norm(search_sn)
        ELSE rma_val = norm(search_rma) /\ sn_val = norm(search_sn)

row_matches(row, rma_col_idx, sn_col_idx, search_rma, search_sn) ==
    LET search_by_sn_only == norm(search_rma) \in {sna, sEmpty}
        rma_val == cell_or_empty(row, rma_col_idx)
        sn_val == cell_or_empty(row, sn_col_idx)
    IN  IF search_by_sn_only
        THEN sn_val = norm(search_sn) /\ rma_val \in {sna, sEmpty}
        ELSE rma_val = norm(search_rma) /\ sn_val = norm(search_sn)

\* The sheet row (the header is row 1) of the first match, -1 for none.
RECURSIVE scan_rows(_, _, _, _, _, _)
scan_rows(rows, k, rma_col_idx, sn_col_idx, search_rma, search_sn) ==
    IF k > Len(rows) THEN -1
    ELSE IF row_matches(rows[k], rma_col_idx, sn_col_idx, search_rma, search_sn)
         THEN k + 1
         ELSE scan_rows(rows, k + 1, rma_col_idx, sn_col_idx, search_rma, search_sn)

find_row_in_gsheet(ws, search_rma, search_sn) ==
    LET rma_col_idx == index(ws.headers, "RMA")
        sn_col_idx == index(ws.headers, "S/N")
    IN  IF rma_col_idx = -1 \/ sn_col_idx = -1 THEN -1
        ELSE scan_rows(ws.rows, 1, rma_col_idx, sn_col_idx, search_rma, search_sn)

\* Decimal digits of a tick count: the text of a timestamp.
DigitChars == <<"0", "1", "2", "3", "4", "5", "6", "7", "8", "9">>

RECURSIVE decimal(_)
decimal(n) ==
    IF n < 10 THEN <<DigitChars[n + 1]>>
    ELSE decimal(n \div 10) \o <<DigitChars[(n % 10) + 1]>>

\* worksheet.batch_update of single cells of one sheet row, by column number.
batch_update(ws, row, cells) ==
    [ws EXCEPT !.rows[row - 1] =
        [j \in 1..Len(ws.rows[row - 1]) |->
            IF j \in DOMAIN cells THEN cells[j] ELSE ws.rows[row - 1][j]]]

COL_M == 13
COL_N == 14

\* Mutant: the miss falls through to the success return.
update_estimate_sent_details_in_gsheet_true(ws, rma, sn, email, sent_tick, up) ==
    LET row == find_row_in_gsheet(ws, rma, sn)
    IN  IF ~up THEN [ok |-> FALSE, error |-> TRUE, row |-> -1, ws |-> ws]
        ELSE IF row # -1
             THEN [ok |-> TRUE, error |-> FALSE, row |-> row,
                   ws |-> batch_update(ws, row,
                            (COL_M :> email) @@ (COL_N :> decimal(sent_tick)))]
             ELSE [ok |-> TRUE, error |-> FALSE, row |-> row, ws |-> ws]

\* Each update returns what the caller gets, whether an error was reported,
\* the located row and the worksheet afterwards.
update_estimate_sent_details_in_gsheet(ws, rma, sn, email, sent_tick, up) ==
    LET row == find_row_in_gsheet(ws, rma, sn)
    IN  IF ~up THEN [ok |-> FALSE, error |-> TRUE, row |-> -1, ws |-> ws]
        ELSE IF row # -1
             THEN [ok |-> TRUE, error |-> FALSE, row |-> row,
                   ws |-> batch_update(ws, row,
                            (COL_M :> email) @@ (COL_N :> decimal(sent_tick)))]
             ELSE [ok |-> FALSE, error |-> FALSE, row |-> row, ws |-> ws]

\* In logic.py the name datetime is bound to the class (line 23), so
\* datetime.datetime.combine raises AttributeError once a row is found; the
\* wrapper reports it and returns False before any cell is written.
update_shipped_status_in_gsheet(ws, rma, sn, shipped_tick, up) ==
    LET row == find_row_in_gsheet(ws, rma, sn)
    IN  IF ~up THEN [ok |-> FALSE, error |-> TRUE, row |-> -1, ws |-> ws]
        ELSE IF row # -1
             THEN [ok |-> FALSE, error |-> TRUE, row |-> row, ws |-> ws]
             ELSE [ok |-> FALSE, error |-> FALSE, row |-> row, ws |-> ws]

update_reminder_details_in_gsheet(ws, rma, sn, reminder_tick, method, up) ==
    LET row == find_row_in_gsheet(ws, rma, sn)
    IN  IF ~up THEN [ok |-> FALSE, error |-> TRUE, row |-> -1, ws |-> ws]
        ELSE IF row # -1
             THEN [ok |-> FALSE, error |-> TRUE, row |-> row, ws |-> ws]
             ELSE [ok |-> FALSE, error |-> FALSE, row |-> row, ws |-> ws]

MarkEstimateSent(rma, sn, up) ==
    LET res == update_estimate_sent_details_in_gsheet(sheet, rma, sn, sMail, nowTick, up)
    IN  /\ sheet' = res.ws
        /\ lastOp' = [Idle EXCEPT !.op = "sent", !.up = up, !.ok = res.ok,
                                   !.error = res.error, !.query = <<rma, sn>>,
                                   !.row = res.row]
        /\ UNCHANGED <<today, table, archive, eodArchive, calls>>

MarkShipped(rma, sn, up) ==
    LET res == update_shipped_status_in_gsheet(sheet, rma, sn, nowTick, up)
    IN  /\ sheet' = res.ws
        /\ lastOp' = [Idle EXCEPT !.op = "shipped", !.up = up, !.ok = res.ok,
                                   !.error = res.error, !.query = <<rma, sn>>,
                                   !.row = res.row]
        /\ UNCHANGED <<today, table, archive, eodArchive, calls>>

MarkReminderCompleted(rma, sn, up) ==
    LET res == update_reminder_details_in_gsheet(sheet, rma, sn, nowTick, sMail, up)
    IN  /\ sheet' = res.ws
        /\ lastOp' = [Idle EXCEPT !.op = "reminder", !.up = up, !.ok = res.ok,
                                   !.error = res.error, !.query = <<rma, sn>>,
                                   !.row = res.row]
        /\ UNCHANGED <<today, table, archive, eodArchive, calls>>

(***************************************************************************)
(* The overdue detectors                                                   *)
(***************************************************************************)
\* datetime.datetime.now(): the module binds the name datetime to the module
\* (import datetime) and later to the class (from datetime import datetime);
\* the class has no attribute datetime, so the call raises AttributeError.
datetime_datetime_now(now) == [raised |-> TRUE, value |-> now]

\* timedelta.days: the whole 24-hour periods of a difference, rounded down.
days(delta) == delta \div TicksPerDay

RECURSIVE quote_plus(_)
\* urllib.parse.quote_plus on the characters of the model's texts: a space
\* becomes "+", "/" and "@" are percent-encoded, letters and digits stay.
quote_plus(text) ==
    IF text = << >> THEN << >>
    ELSE LET c == Head(text)
             enc == CASE c = " " -> <<"+">>
                      [] c = "/" -> <<"%", "2", "F">>
                      [] c = "@" -> <<"%", "4", "0">>
                      [] OTHER -> <<c>>
         IN  enc \o quote_plus(Tail(text))

\* The link column of a returned row: the f-string is applied to every row,
\* whatever its RMA; BC_FILTER stands for the fixed text before the value.
BC_FILTER == <<"?", "f", "=">>

bc_link(rma) == BC_FILTER \o quote_plus(rma)

\* The rows of the flag-filtered frame whose time is set and lies more than
\* days_threshold whole days before now, each with its count of days.
overdue_rows(flagged, now, time_col, days_threshold) ==
    LET overdue_df ==
            SelectSeq(flagged, LAMBDA r :
                /\ r[time_col] # NaT
                /\ days(now - r[time_col]) > days_threshold)
    IN  [i \in 1..Len(overdue_df) |->
            [record |-> overdue_df[i], days |-> days(now - overdue_df[i][time_col]),
             link |-> bc_link(overdue_df[i].RMA)]]

identify_overdue_estimates(df, days_threshold, clock) ==
    IF df = << >> THEN [raised |-> FALSE, rows |-> << >>]
    ELSE LET now == datetime_datetime_now(clock)
         IN  IF now.raised THEN [raised |-> TRUE, rows |-> << >>]
             ELSE [raised |-> FALSE,
                   rows |-> overdue_rows(SelectSeq(df,
                                LAMBDA r : /\ lower(r.EstimateComplete) = syes
                                           /\ lower(r.EstimateSentToEmail) = sna
                                           /\ lower(r.Shipped) \in {sno, sna}),
                                now.value, "EstimateCompleteTime", days_threshold)]

identify_overdue_reminders(df, days_threshold, clock) ==
    IF df = << >> THEN [raised |-> FALSE, rows |-> << >>]
    ELSE LET now == datetime_datetime_now(clock)
         IN  IF now.raised THEN [raised |-> TRUE, rows |-> << >>]
             ELSE [raised |-> FALSE,
                   rows |-> overdue_rows(SelectSeq(df,
                                LAMBDA r : /\ lower(r.EstimateSentToEmail) # sna
                                           /\ lower(r.ReminderCompleted) \in {sno, sna}
                                           /\ lower(r.EstimateApproved) \in {sno, sna}),
                                now.value, "EstimateSentTime", days_threshold)]

identify_overdue_for_shipping(df, days_threshold, clock) ==
    IF df = << >> THEN [raised |-> FALSE, rows |-> << >>]
    ELSE LET now == datetime_datetime_now(clock)
         IN  IF now.raised THEN [raised |-> TRUE, rows |-> << >>]
             ELSE [raised |-> FALSE,
                   rows |-> overdue_rows(SelectSeq(df,
                                LAMBDA r : /\ lower(r.EstimateApproved) = syes
                                           /\ lower(r.QAApproved) = syes
                                           /\ lower(r.Shipped) \in {sno, sna}),
                                now.value, "QAApprovedTime", days_threshold)]

\* A call of a detector at the clock time now; an exception leaves no list.
Detect(name, found, days_threshold, clock) ==
    /\ lastOp' = [Idle EXCEPT !.op = name, !.error = found.raised, !.rows = found.rows,
                              !.threshold = days_threshold, !.now = clock]
    /\ UNCHANGED <<today, table, archive, eodArchive, sheet, calls>>

IdentifyOverdueEstimates(days_threshold, clock) ==
    Detect("overdue_estimates", identify_overdue_estimates(table, days_threshold, clock),
           days_threshold, clock)

IdentifyOverdueReminders(days_threshold, clock) ==
    Detect("overdue_reminders", identify_overdue_reminders(table, days_threshold, clock),
           days_threshold, clock)

IdentifyOverdueForShipping(days_threshold, clock) ==
    Detect("overdue_shipping", identify_overdue_for_shipping(table, days_threshold, clock),
           days_threshold, clock)

(***************************************************************************)
(* A direct call of the report generator for the date D                    *)
(***************************************************************************)
\* The columns that the three masks of the generator read: df[column] of a
\* column the table lacks raises KeyError before any list is made.
MaskColumns ==
    {"EstimateComplete", "EstimateApproved", "QAApproved", "Shipped", "QAApprovedTime",
     "EstimateSentToEmail", "EstimateCompleteTime", "ReminderCompleted",
     "EstimateSentTime"}

has_columns(df, cols) == df = << >> \/ cols \subseteq DOMAIN df[1]

GenerateReport(D) ==
    LET raised == ~has_columns(table, MaskColumns)
    IN  /\ lastOp' = [Idle EXCEPT !.op = "generate", !.error = raised,
                                  !.report = IF raised THEN NullReport
                                             ELSE generate_single_day_report_content(table, D)]
        /\ UNCHANGED <<today, table, archive, eodArchive, sheet, calls>>

(***************************************************************************)
(* load_data_from_google_sheet: the record table read from the main sheet  *)
(***************************************************************************)
\* The columns of the sheet that the model follows, by the field that holds
\* each in a record of the table.
FieldColumns ==
    [RMA |-> "RMA", SN |-> "S/N", SPC |-> "SPC Code",
     EstimateComplete |-> "Estimate Complete",
     EstimateCompleteTime |-> "Estimate Complete Time",
     EstimateApproved |-> "Estimate Approved",
     EstimateSentToEmail |-> "Estimate Sent To Email",
     EstimateSentTime |-> "Estimate Sent Time",
     ReminderCompleted |-> "Reminder Completed",
     QAApproved |-> "QA Approved", QAApprovedTime |-> "QA Approved Time",
     Shipped |-> "Shipped", ShippedTime |-> "Shipped Time"]

TimeFields == {"EstimateCompleteTime", "EstimateSentTime", "QAApprovedTime", "ShippedTime"}

StatusFields ==
    {"EstimateComplete", "EstimateApproved", "ReminderCompleted", "QAApproved", "Shipped"}

snan == <<"n", "a", "n">>
sNone == <<"N", "o", "n", "e">>
sNaN == <<"N", "a", "N">>
sNONE == <<"N", "O", "N", "E">>
sNaT == <<"N", "a", "T">>

\* The whole-cell texts that replace() turns into 'N/A'.
NullTexts == {sEmpty, snan, sNone, sNaN, sNONE, sNaT}

\* pd.to_datetime(errors='coerce') of the text of a tick count: the count
\* for a text of digits, NaT for any other.
RECURSIVE digits_value(_)
digits_value(text) ==
    IF text = << >> THEN 0
    ELSE 10 * digits_value(SubSeq(text, 1, Len(text) - 1))
         + ((CHOOSE d \in 1..10 : DigitChars[d] = text[Len(text)]) - 1)

to_datetime(text) ==
    IF text # << >> /\ \A k \in 1..Len(text) : \E d \in 1..10 : DigitChars[d] = text[k]
    THEN digits_value(text) ELSE NaT

\* One cell of the loaded table: the cell of the sheet under the column's
\* header, or the default of a column the sheet lacks, then the conversion of
\* the column.
load_cell(ws, row, field) ==
    LET idx == index(ws.headers, FieldColumns[field])
        present == idx # -1
        raw == IF present /\ Len(row) > idx THEN row[idx + 1] ELSE sEmpty
    IN  IF field \in TimeFields
        THEN (IF present THEN to_datetime(raw) ELSE NaT)
        ELSE LET text == IF present THEN raw ELSE sNA
                 replaced == IF text \in NullTexts THEN sNA ELSE text
             IN  IF field \in StatusFields /\ replaced = sNA THEN sNo ELSE replaced

load_data_from_google_sheet(ws, up) ==
    IF ~up \/ ws.headers = << >> THEN << >>
    ELSE [i \in 1..Len(ws.rows) |->
            [field \in DOMAIN FieldColumns |-> load_cell(ws, ws.rows[i], field)]]

\* The table is read again from the main sheet.
LoadData(up) ==
    /\ table' = load_data_from_google_sheet(sheet, up)
    /\ lastOp' = [Idle EXCEPT !.op = "load", !.up = up, !.error = ~up]
    /\ UNCHANGED <<today, archive, eodArchive, sheet, calls>>

(***************************************************************************)
(* logic.py: the archive list and the date of its latest report            *)
(***************************************************************************)
\* get_archived_reports: the rows of the archive sheet, latest date first; a
\* failed connection or read yields the empty list.
get_archived_reports(ws, readOk) ==
    IF readOk THEN sortDesc(ws) ELSE << >>

\* datetime.datetime.strptime: the name datetime is bound to the class, which
\* has no attribute datetime, so the call raises AttributeError.
datetime_datetime_strptime(date_key) == [raised |-> TRUE, value |-> date_key]

\* logic.py get_last_report_date_from_archive: the bare except turns the
\* exception into the default of the empty archive.
logic_get_last_report_date_from_archive(archived_reports, tdy) ==
    IF archived_reports = << >> THEN tdy - 1
    ELSE LET parsed == datetime_datetime_strptime(archived_reports[1].date)
         IN  IF parsed.raised THEN tdy - 1 ELSE parsed.value

\* The archive is read and the date of its latest report is asked for.
LastReportDate(readOk) ==
    LET archived_reports == get_archived_reports(archive, readOk)
    IN  /\ lastOp' = [Idle EXCEPT !.op = "lastdate", !.up = readOk, !.error = ~readOk,
                         !.generated = archived_reports,
                         !.last = logic_get_last_report_date_from_archive(
                                      archived_reports, today)]
        /\ UNCHANGED <<today, table, archive, eodArchive, sheet, calls>>

(***************************************************************************)
(* Specifications                                                          *)
(***************************************************************************)
NoSheet == [headers |-> << >>, rows |-> << >>]

\* One session over a few days: reports, direct saves, updates, I/O failures.
Init ==
    /\ today = StartDay
    /\ table \in {<<RecordA>>}
    /\ archive = << >>
    /\ eodArchive = << >>
    /\ sheet = NoSheet
    /\ lastOp = Idle
    /\ calls = NoCalls

FailChoices == {{}} \cup {{StartDay + k} : k \in 0..ShortDays}

Next ==
    \/ DayAdvance(StartDay + ShortDays)
    \/ RefreshData
    \/ \E readOk \in BOOLEAN : \E failDays \in FailChoices :
            GenerateDailyReports(readOk, failDays)
    \/ \E D \in StartDay..today : \E up \in BOOLEAN : SaveReport(D, up)

Spec == Init /\ [][Next]_vars

\* The daily report of a day and its end-of-day summary.
NextEod ==
    \/ DayAdvance(StartDay + EodDays)
    \/ RefreshData
    \/ GenerateDailyReports(TRUE, {})
    \/ \E readOk \in BOOLEAN : \E saveUp \in BOOLEAN :
            GenerateEndOfDaySummary(readOk, saveUp)

InitEod ==
    /\ today = StartDay
    /\ table = InitTable
    /\ archive = << >>
    /\ eodArchive = << >>
    /\ sheet = NoSheet
    /\ lastOp = Idle
    /\ calls = NoCalls

SpecEod == InitEod /\ [][NextEod]_vars

\* The catch-up handler over a long absence, with an empty or a loaded table;
\* the stores are available for a whole run or for none of it.
InitCatchUp ==
    /\ today = StartDay
    /\ table \in {<< >>, InitTable}
    /\ archive = << >>
    /\ eodArchive = << >>
    /\ sheet = NoSheet
    /\ lastOp = Idle
    /\ calls = NoCalls

NextCatchUp ==
    \/ DayAdvance(StartDay + MaxDay)
    \/ GenerateDailyReports(TRUE, {})
    \/ GenerateDailyReports(FALSE, StartDay..(StartDay + MaxDay))

SpecCatchUp == InitCatchUp /\ [][NextCatchUp]_vars

\* The row store: two stored rows, under the expected header row, a header row
\* with two columns exchanged, and one that names no RMA column.
stored_row(headers, rma, sn) ==
    [j \in 1..Len(headers) |->
        IF headers[j] = "RMA" THEN rma ELSE IF headers[j] = "S/N" THEN sn ELSE sEmpty]

swapped_headers ==
    [EXPECTED_COLUMN_ORDER EXCEPT ![1] = "S/N", ![4] = "RMA"]

unnamed_headers ==
    [EXPECTED_COLUMN_ORDER EXCEPT ![1] = "RMA No"]

StoredRMAs == {sEmpty, sNA, sR1, <<" ", "r", "1">>}
StoredSNs == {sS1, <<"s", "1", " ">>}
QueryRMAs == {sNA, <<" ", "n", "/", "a">>, sEmpty, sR1, sR2}
QuerySNs == {<<" ", "S", "1">>, sS2}

InitStore ==
    /\ today = StartDay
    /\ table = << >>
    /\ archive = << >>
    /\ eodArchive = << >>
    /\ lastOp = Idle
    /\ calls = NoCalls
    /\ \E headers \in {EXPECTED_COLUMN_ORDER, swapped_headers, unnamed_headers} :
       \E rma1 \in StoredRMAs : \E sn1 \in StoredSNs : \E rma2 \in {sNA, sR1} :
            sheet = [headers |-> headers,
                     rows |-> <<stored_row(headers, rma1, sn1),
                                stored_row(headers, rma2, sS1)>>]

NextStore ==
    \/ \E rma \in QueryRMAs : \E sn \in QuerySNs : \E up \in BOOLEAN :
            MarkEstimateSent(rma, sn, up)
    \/ \E rma \in QueryRMAs : \E sn \in QuerySNs : \E up \in BOOLEAN :
            MarkShipped(rma, sn, up)
    \/ \E rma \in QueryRMAs : \E sn \in QuerySNs : \E up \in BOOLEAN :
            MarkReminderCompleted(rma, sn, up)

SpecStore == InitStore /\ [][NextStore]_vars

\* The detectors: a table with a record due in each list and one whose
\* estimate was completed at no recorded time, over the following days.
RecordNull ==
    [RecordB EXCEPT !.SN = <<"S", "3">>, !.EstimateCompleteTime = NaT]

InitDetect ==
    /\ today = StartDay
    /\ table \in {<< >>, InitTable, Append(InitTable, RecordNull)}
    /\ archive = << >>
    /\ eodArchive = << >>
    /\ sheet = NoSheet
    /\ lastOp = Idle
    /\ calls = NoCalls

NextDetect ==
    \/ DayAdvance(StartDay + DetectDays)
    \/ \E t \in 1..MaxThreshold : \E h \in 0..(TicksPerDay - 1) :
            IdentifyOverdueEstimates(t, nowTick + h)
    \/ \E t \in 1..MaxThreshold : \E h \in 0..(TicksPerDay - 1) :
            IdentifyOverdueReminders(t, nowTick + h)
    \/ \E t \in 1..MaxThreshold : \E h \in 0..(TicksPerDay - 1) :
            IdentifyOverdueForShipping(t, nowTick + h)

SpecDetect == InitDetect /\ [][NextDetect]_vars

\* The report generator: tables of one record with every combination of the
\* stage flags and with one of the three stage times absent, and the table of
\* three records; reports for the dates around the stage times.
baseTick == startTick - TicksPerDay

StageTimes ==
    LET full == <<baseTick, baseTick + TicksPerDay, baseTick + 2 * TicksPerDay + 1>>
    IN  {full} \cup {[full EXCEPT ![k] = NaT] : k \in 1..3}

ReportTables ==
    {InitTable} \cup
    {<<[RMA |-> sR1, SN |-> sS1, SPC |-> sSPC,
        EstimateComplete |-> ec, EstimateCompleteTime |-> times[1],
        EstimateApproved |-> ea,
        EstimateSentToEmail |-> mail, EstimateSentTime |-> times[2],
        ReminderCompleted |-> rc,
        QAApproved |-> qa, QAApprovedTime |-> times[3],
        Shipped |-> sh, ShippedTime |-> NaT]>> :
        ec \in {sYes, sNo}, ea \in {sYes, sNo, sna}, mail \in {sNA, sMail},
        rc \in {sYes, sNo, sna}, qa \in {syes, sNo}, sh \in {sYes, sNo, sna},
        times \in StageTimes}

ArchivedDay == StartDay + 1

InitReport ==
    /\ today = StartDay
    /\ table \in ReportTables
    /\ archive = << >>
    /\ eodArchive = << >>
    /\ sheet = NoSheet
    /\ lastOp = Idle
    /\ calls = NoCalls

NextReport ==
    \/ DayAdvance(StartDay + ReportDays)
    \/ \E D \in StartDay..(StartDay + ReportDays) : GenerateReport(D)
    \/ SaveReport(ArchivedDay, TRUE)

SpecReport == InitReport /\ [][NextReport]_vars

\* The loader: a sheet of one row whose status cells hold the texts a sheet
\* can hold, under the expected header row and under one without the Shipped
\* column.
sMaybe == <<"M", "a", "y", "b", "e">>

RawStatus == {sEmpty, sNA, sNaN, sNone, sYes, sNo, sna, syes, sMaybe}

raw_row(headers, cells) ==
    [j \in 1..Len(headers) |->
        IF \E f \in DOMAIN cells : FieldColumns[f] = headers[j]
        THEN cells[CHOOSE f \in DOMAIN cells : FieldColumns[f] = headers[j]]
        ELSE sEmpty]

no_shipped_headers ==
    [EXPECTED_COLUMN_ORDER EXCEPT ![20] = "Dispatched"]

InitLoad ==
    /\ today = StartDay
    /\ table = << >>
    /\ archive = << >>
    /\ eodArchive = << >>
    /\ lastOp = Idle
    /\ calls = NoCalls
    /\ \E headers \in {EXPECTED_COLUMN_ORDER, no_shipped_headers} :
       \E v1 \in RawStatus : \E v2 \in RawStatus :
            sheet = [headers |-> headers,
                     rows |-> <<raw_row(headers,
                                 [RMA |-> sR1, SN |-> sS1, SPC |-> sSPC,
                                  EstimateComplete |-> sYes,
                                  EstimateCompleteTime |-> decimal(startTick - TicksPerDay),
                                  EstimateApproved |-> v1,
                                  EstimateSentToEmail |-> sEmpty,
                                  EstimateSentTime |-> sNA,
                                  ReminderCompleted |-> v2,
                                  QAApproved |-> v1,
                                  QAApprovedTime |-> decimal(startTick),
                                  Shipped |-> v2,
                                  ShippedTime |-> sEmpty])>>]

NextLoad ==
    \/ \E up \in BOOLEAN : LoadData(up)
    \/ \E D \in StartDay..(StartDay + 1) : GenerateReport(D)

SpecLoad == InitLoad /\ [][NextLoad]_vars

\* Tables without one column: every record of the table lacks the same field.
without_column(df, c) ==
    [i \in 1..Len(df) |-> [f \in (DOMAIN df[i]) \ {c} |-> df[i][f]]]

DroppedColumns == {"Shipped", "EstimateComplete", "EstimateSentTime", "QAApprovedTime"}

InitColumns ==
    /\ today = StartDay
    /\ table \in {InitTable} \cup {without_column(InitTable, c) : c \in DroppedColumns}
    /\ archive = << >>
    /\ eodArchive = << >>
    /\ sheet = NoSheet
    /\ lastOp = Idle
    /\ calls = NoCalls

NextColumns ==
    \/ DayAdvance(StartDay + DetectDays)
    \/ \E t \in 1..MaxThreshold : IdentifyOverdueEstimates(t, nowTick)
    \/ \E t \in 1..MaxThreshold : IdentifyOverdueReminders(t, nowTick)
    \/ \E t \in 1..MaxThreshold : IdentifyOverdueForShipping(t, nowTick)
    \/ \E D \in StartDay..(StartDay + 1) : GenerateReport(D)

SpecColumns == InitColumns /\ [][NextColumns]_vars

\* The stores failing: catch-up runs in which the save of one day fails,
\* direct saves and the three stage updates with the store out of reach.
InitFail ==
    /\ today = StartDay
    /\ table = <<RecordA>>
    /\ archive = << >>
    /\ eodArchive = << >>
    /\ sheet = [headers |-> EXPECTED_COLUMN_ORDER,
                rows |-> <<stored_row(EXPECTED_COLUMN_ORDER, sR1, sS1)>>]
    /\ lastOp = Idle
    /\ calls = NoCalls

NextFail ==
    \/ DayAdvance(StartDay + ShortDays)
    \/ \E readOk \in BOOLEAN : \E failDays \in FailChoices :
            GenerateDailyReports(readOk, failDays)
    \/ \E D \in StartDay..(StartDay + ShortDays) : \E up \in BOOLEAN : SaveReport(D, up)
    \/ \E up \in BOOLEAN : MarkEstimateSent(sR1, sS1, up)
    \/ \E up \in BOOLEAN : MarkShipped(sR1, sS1, up)
    \/ \E up \in BOOLEAN : MarkReminderCompleted(sR1, sS1, up)

SpecFail == InitFail /\ [][NextFail]_vars

\* The archive filled by direct saves in any order of dates, and read back.
InitLast ==
    /\ today = StartDay
    /\ table = <<RecordA>>
    /\ archive = << >>
    /\ eodArchive = << >>
    /\ sheet = NoSheet
    /\ lastOp = Idle
    /\ calls = NoCalls

NextLast ==
    \/ DayAdvance(StartDay + ShortDays + 1)
    \/ \E D \in StartDay..(StartDay + ShortDays) : D <= today /\ SaveReport(D, TRUE)
    \/ \E readOk \in BOOLEAN : LastReportDate(readOk)

SpecLast == InitLast /\ [][NextLast]_vars

\* Catch-up runs with the stores in reach, from an empty archive, between
\* day advances, a long absence and updates of the table.
InitGap ==
    /\ today = StartDay
    /\ table \in {<< >>, <<RecordA>>}
    /\ archive = << >>
    /\ eodArchive = << >>
    /\ sheet = NoSheet
    /\ lastOp = Idle
    /\ calls = NoCalls

NextGap ==
    \/ DayAdvance(StartDay + ShortDays)
    \/ LongAbsence(StartDay + MaxDay)
    \/ RefreshData
    \/ GenerateDailyReports(TRUE, {})

SpecGap == InitGap /\ [][NextGap]_vars

\* The row store under two physical column orders: the expected one, and one
\* in which "Estimate Sent To Email" and "Reminder Completed" changed places.
moved_headers ==
    [EXPECTED_COLUMN_ORDER EXCEPT ![13] = "Reminder Completed",
                                  ![15] = "Estimate Sent To Email"]

InitOrder ==
    /\ today = StartDay
    /\ table = << >>
    /\ archive = << >>
    /\ eodArchive = << >>
    /\ lastOp = Idle
    /\ calls = NoCalls
    /\ \E headers \in {EXPECTED_COLUMN_ORDER, moved_headers} : \E rma2 \in {sNA, sR2} :
            sheet = [headers |-> headers,
                     rows |-> <<stored_row(headers, sR1, sS1),
                                stored_row(headers, rma2, sS2)>>]

NextOrder ==
    \/ DayAdvance(StartDay + 1)
    \/ \E rma \in {sR1, sR2, sNA} : \E sn \in {sS1, sS2} : \E up \in BOOLEAN :
            MarkEstimateSent(rma, sn, up)
    \/ \E rma \in {sR1, sR2, sNA} : \E sn \in {sS1, sS2} : \E up \in BOOLEAN :
            MarkShipped(rma, sn, up)
    \/ \E rma \in {sR1, sR2, sNA} : \E sn \in {sS1, sS2} : \E up \in BOOLEAN :
            MarkReminderCompleted(rma, sn, up)

SpecOrder == InitOrder /\ [][NextOrder]_vars

\* Two sessions running the catch-up at once over one archive worksheet.
InitSessions ==
    /\ today = StartDay
    /\ table = <<RecordA>>
    /\ archive = << >>
    /\ eodArchive = << >>
    /\ sheet = NoSheet
    /\ lastOp = Idle
    /\ calls = NoCalls

NextSessions ==
    \/ DayAdvance(StartDay + ShortDays)
    \/ \E s \in Sessions : BeginCatchUp(s)
    \/ \E s \in Sessions : ReadExistingDates(s)
    \/ \E s \in Sessions : AppendRow(s)

SpecSessions == InitSessions /\ [][NextSessions]_vars

(***************************************************************************)
(* Properties                                                              *)
(***************************************************************************)
IsPrefix(s, t) == Len(s) <= Len(t) /\ \A i \in 1..Len(s) : t[i] = s[i]

rows_of(ws) == {ws[i] : i \in 1..Len(ws)}

\* A step that is a catch-up run meeting no I/O failure.
CatchUpStep == lastOp'.op = "catchup" /\ lastOp'.up

\* C1 (as stated): a catch-up run that directly follows another, with nothing
\* changed in between and the stores available, saves no report and leaves the
\* archive as it was, whatever the gap the first run started from.
C1_SecondRunSavesNothing ==
    [][(CatchUpStep /\ lastOp'.prev # "")
        => (archive' = archive /\ lastOp'.generated = << >>)]_vars

\* C1 (amended): the same, for a first run that did not stop on the overflow.
C1_SecondRunSavesNothingUnlessOverflow ==
    [][(CatchUpStep /\ lastOp'.prev \notin {"", "overflow"})
        => (archive' = archive /\ lastOp'.generated = << >>)]_vars

C1_Witness ==
    /\ lastOp.op = "catchup" /\ lastOp.up
    /\ lastOp.prev = "done" /\ lastOp.outcome = "uptodate"
    /\ Len(archive) > 1

\* C2: the daily-report archive holds at most one row per calendar date.
C2_OneEntryPerDate ==
    \A i, j \in 1..Len(archive) : archive[i].date = archive[j].date => i = j

C2_Witness ==
    /\ Len(archive) >= 2
    /\ lastOp.op = "catchup" /\ lastOp.outcome = "done"
    /\ lastOp.last + 1 \in existing_dates(archive)
    /\ lastOp.generated = << >>

\* C3: a save for a date already archived, the store being available, returns
\* false, reports no error and changes no row of the archive; and no step at
\* all alters or removes a row once archived.
C3_SavePresentIsNoOp ==
    [][/\ IsPrefix(archive, archive')
       /\ (/\ lastOp'.op = "save" /\ lastOp'.up
           /\ lastOp'.report.date \in existing_dates(archive))
          => (~lastOp'.ok /\ ~lastOp'.error /\ archive' = archive)]_vars

C3_Witness ==
    /\ lastOp.op = "save" /\ lastOp.up /\ ~lastOp.ok
    /\ \E i \in 1..Len(archive) :
            /\ archive[i].date = lastOp.report.date
            /\ archive[i] # lastOp.report

\* What C4 promises of a catch-up step.
CatchUpComplete ==
    /\ \A d \in (lastOp'.last + 1)..today : d \in existing_dates(archive')
    /\ rows_of(lastOp'.generated) = rows_of(archive') \ rows_of(archive)
    /\ Len(lastOp'.generated) = Len(archive') - Len(archive)

\* C4 (as stated): with the stores available and today at most 30 days after
\* lastArchivedDate, one run archives every date from lastArchivedDate+1 to today
\* and collects exactly the reports it saved.
C4_CatchUpReachesToday ==
    [][(CatchUpStep /\ today - lastOp'.last <= MAX_CATCH_UP_DAYS)
        => CatchUpComplete]_vars

\* C4 (amended): the same, for a record table that is not empty.
C4_CatchUpReachesTodayWithData ==
    [][(CatchUpStep /\ today - lastOp'.last <= MAX_CATCH_UP_DAYS /\ table # << >>)
        => CatchUpComplete]_vars

C4_Witness ==
    /\ lastOp.op = "catchup" /\ lastOp.up /\ lastOp.outcome = "done"
    /\ today - lastOp.last = MAX_CATCH_UP_DAYS
    /\ Len(lastOp.generated) = MAX_CATCH_UP_DAYS

\* C5: a run over a loaded table, the stores available, ends in the overflow
\* error short of today exactly when today is more than 30 days after
\* lastArchivedDate.
C5_OverflowIffMoreThan30Days ==
    (lastOp.op = "catchup" /\ lastOp.up /\ table # << >>)
        => /\ (today - lastOp.last > MAX_CATCH_UP_DAYS)
                => (lastOp.outcome = "overflow" /\ today \notin existing_dates(archive))
           /\ (today - lastOp.last <= MAX_CATCH_UP_DAYS)
                => lastOp.outcome # "overflow"

\* C6: a run that stops on the overflow leaves in the archive, as generated,
\* every report it saved, after the rows that were there before, unchanged.
C6_OverflowKeepsProgress ==
    [][(lastOp'.op = "catchup" /\ lastOp'.outcome = "overflow")
        => archive' = archive \o lastOp'.generated]_vars

C6_Witness ==
    /\ lastOp.op = "catchup" /\ lastOp.outcome = "overflow"
    /\ Len(lastOp.generated) > MAX_CATCH_UP_DAYS
    /\ Len(archive) > Len(lastOp.generated)

StoreOps == {"sent", "shipped", "reminder"}

has_identity_columns(ws) ==
    (\E j \in 1..Len(ws.headers) : ws.headers[j] = "RMA")
    /\ (\E j \in 1..Len(ws.headers) : ws.headers[j] = "S/N")

\* The cell of stored row k under the column named name.
stored(ws, k, name) ==
    ws.rows[k][CHOOSE j \in 1..Len(ws.headers) : ws.headers[j] = name]

is_null_rma(t) == norm(t) \in {sEmpty, sna}

\* The identity rule: stored row k against the lookup q = <<rma, serial>>.
identity_matches(ws, k, q) ==
    /\ norm(stored(ws, k, "S/N")) = norm(q[2])
    /\ IF is_null_rma(q[1]) THEN is_null_rma(stored(ws, k, "RMA"))
       ELSE norm(stored(ws, k, "RMA")) = norm(q[1])

\* C7: on a sheet that has the RMA and S/N columns, the locator returns the
\* first stored row that the identity rule matches, and no row when none does:
\* a lookup without RMA matches the rows without RMA of equal serial, a lookup
\* with an RMA the rows of equal RMA and serial, trimmed and without case.
C7_LocatorFollowsIdentityRule ==
    (lastOp.op \in StoreOps /\ lastOp.up /\ has_identity_columns(sheet))
        => /\ \A k \in 1..Len(sheet.rows) :
                identity_matches(sheet, k, lastOp.query)
                    => (lastOp.row # -1 /\ lastOp.row <= k + 1)
           /\ lastOp.row # -1
                => /\ lastOp.row - 1 \in 1..Len(sheet.rows)
                   /\ identity_matches(sheet, lastOp.row - 1, lastOp.query)

\* The lookup N/A, " S1" finds the stored row of RMA "" and serial "s1 ".
C7_Witness ==
    /\ lastOp.op \in StoreOps /\ lastOp.up
    /\ lastOp.query = <<sNA, <<" ", "S", "1">>>>
    /\ lastOp.row = 2
    /\ has_identity_columns(sheet)
    /\ stored(sheet, 1, "RMA") = sEmpty
    /\ stored(sheet, 1, "S/N") = <<"s", "1", " ">>

no_match(ws, q) ==
    has_identity_columns(ws) => \A k \in 1..Len(ws.rows) : ~identity_matches(ws, k, q)

\* C8: when no stored row matches the identity, each stage update, the store
\* being available, returns false, reports no error and leaves the sheet as it
\* was.
C8_MissIsNoUpdate ==
    [][(lastOp'.op \in StoreOps /\ lastOp'.up /\ no_match(sheet, lastOp'.query))
        => (~lastOp'.ok /\ ~lastOp'.error /\ sheet' = sheet)]_vars

C8_Witness ==
    /\ lastOp.op = "sent" /\ lastOp.up /\ ~lastOp.ok /\ lastOp.row = -1
    /\ has_identity_columns(sheet)
    /\ lastOp.query[1] = sR1
    /\ \E k \in 1..Len(sheet.rows) : norm(stored(sheet, k, "RMA")) = lower(sR1)

EodDone == lastOp.op = "eod" /\ lastOp.outcome = "done"

\* The rows of the live table that carry the identity of a task.
live_matches(task) ==
    {i \in 1..Len(table) :
        norm(table[i].RMA) = norm(task.RMA) /\ norm(table[i].SN) = norm(task.SN)}

first_live(task) ==
    table[CHOOSE i \in live_matches(task) : \A j \in live_matches(task) : i <= j]

one_entry_per_task(tasks, entries) ==
    /\ Len(entries) = Len(tasks)
    /\ \A i \in 1..Len(tasks) :
            /\ entries[i].RMA = tasks[i].RMA /\ entries[i].SN = tasks[i].SN
            /\ entries[i].Status \in {"Completed", "Pending"}

classified(tasks, entries, Done(_)) ==
    /\ one_entry_per_task(tasks, entries)
    /\ \A i \in 1..Len(tasks) :
            live_matches(tasks[i]) # {}
                => (entries[i].Status = "Completed" <=> Done(first_live(tasks[i])))

\* C9: in a summary, each list holds one entry per task of the day's report,
\* and a task whose record is in the live table is Completed exactly when that
\* record has its estimate sent (estimate tasks), its reminder made (reminder
\* tasks), its unit shipped (shipping tasks), and Pending otherwise.
C9_TasksClassifiedFromLive ==
    EodDone
        => /\ classified(lastOp.report.needs_estimate_creation,
                         lastOp.summary.estimate_tasks,
                         LAMBDA r : lower(r.EstimateSentToEmail) # sna)
           /\ classified(lastOp.report.needs_reminder, lastOp.summary.reminder_tasks,
                         LAMBDA r : lower(r.ReminderCompleted) = syes)
           /\ classified(lastOp.report.needs_shipping, lastOp.summary.shipping_tasks,
                         LAMBDA r : lower(r.Shipped) = syes)

has_status(entries, status) == \E i \in 1..Len(entries) : entries[i].Status = status

C9_Witness ==
    /\ EodDone
    /\ has_status(lastOp.summary.shipping_tasks, "Completed")
    /\ has_status(lastOp.summary.estimate_tasks, "Pending")
    /\ has_status(lastOp.summary.reminder_tasks, "Completed")
    /\ \A i \in 1..Len(lastOp.report.needs_shipping) :
            live_matches(lastOp.report.needs_shipping[i]) # {}

pending_when_missing(tasks, entries) ==
    /\ Len(entries) = Len(tasks)
    /\ \A i \in 1..Len(tasks) :
            live_matches(tasks[i]) = {} => entries[i].Status = "Pending"

\* C10: a summary is made whether or not the tasks' records are still in the
\* live table, and a task whose identity matches no live record is Pending.
C10_MissingRecordIsPending ==
    EodDone
        => /\ pending_when_missing(lastOp.report.needs_estimate_creation,
                                   lastOp.summary.estimate_tasks)
           /\ pending_when_missing(lastOp.report.needs_reminder,
                                   lastOp.summary.reminder_tasks)
           /\ pending_when_missing(lastOp.report.needs_shipping,
                                   lastOp.summary.shipping_tasks)

C10_Witness ==
    /\ EodDone
    /\ \E i \in 1..Len(lastOp.report.needs_shipping) :
            /\ live_matches(lastOp.report.needs_shipping[i]) = {}
            /\ lastOp.summary.shipping_tasks[i].Status = "Pending"
    /\ \E r \in rows_of(table) : lower(r.Shipped) = syes

\* The task of the list with the identity of record r, trimmed and without case.
listed(tasks, r) ==
    \E i \in 1..Len(tasks) :
        norm(tasks[i].RMA) = norm(r.RMA) /\ norm(tasks[i].SN) = norm(r.SN)

shipped_on(r, D) ==
    lower(r.Shipped) = syes /\ r.ShippedTime # NaT /\ r.ShippedTime \div TicksPerDay = D

\* The live rows that are ad hoc shipments of the summary date.
adhoc_rows ==
    {i \in 1..Len(table) :
        shipped_on(table[i], lastOp.summary.date)
        /\ ~listed(lastOp.report.needs_shipping, table[i])}

\* C11: adhoc_shipped_today of the summary of date D holds, in table order,
\* exactly the live records shipped on D whose identity, trimmed and without
\* case, is not in the needs_shipping list of D; a record shipped on D that is
\* in that list is not among them.
C11_AdhocIsShippedTodayNotListed ==
    EodDone
        => LET adhoc == lastOp.summary.adhoc_shipped_today
           IN  /\ lastOp.summary.date = today /\ lastOp.report.date = today
               /\ Len(adhoc) = Cardinality(adhoc_rows)
               /\ \A i \in adhoc_rows :
                    \E k \in 1..Len(adhoc) :
                        adhoc[k].RMA = table[i].RMA /\ adhoc[k].SN = table[i].SN
               /\ \A i \in 1..Len(table) :
                    (shipped_on(table[i], today)
                     /\ listed(lastOp.report.needs_shipping, table[i]))
                        => \A k \in 1..Len(adhoc) :
                                ~(adhoc[k].RMA = table[i].RMA /\ adhoc[k].SN = table[i].SN)

\* A unit whose RMA was reassigned after the morning report is shipped: it is
\* ad hoc, while the morning's shipping task stays in the report.
C11_Witness ==
    /\ EodDone
    /\ Len(lastOp.summary.adhoc_shipped_today) = 1
    /\ lastOp.summary.adhoc_shipped_today[1].RMA = sR3
    /\ Len(lastOp.report.needs_shipping) = 1
    /\ lastOp.report.needs_shipping[1].RMA = sR1

\* The rows a detector returned, and the rows it is to return: the records
\* that meet the flags, carry a time and have more whole days elapsed than the
\* threshold, each with its count of whole elapsed days.
returned_rows ==
    {[record |-> lastOp.rows[k].record, days |-> lastOp.rows[k].days] :
        k \in 1..Len(lastOp.rows)}

elapsed_days(ts) == (lastOp.now - ts) \div TicksPerDay

due_rows(flags(_), time_col) ==
    {[record |-> table[i], days |-> elapsed_days(table[i][time_col])] :
        i \in {j \in 1..Len(table) :
                /\ flags(table[j])
                /\ table[j][time_col] # NaT
                /\ elapsed_days(table[j][time_col]) > lastOp.threshold}}

to_send_flags(r) ==
    /\ lower(r.EstimateComplete) = syes
    /\ lower(r.Shipped) \in {sno, sna}
    /\ lower(r.EstimateSentToEmail) = sna

\* C12: among the records that meet the flags of the overdue-to-send detector,
\* one whose estimate was completed exactly threshold days before now is not
\* returned, and one completed threshold + 1 days before now is returned.
C12_ThresholdIsStrict ==
    lastOp.op = "overdue_estimates"
        => \A i \in 1..Len(table) :
            (to_send_flags(table[i]) /\ table[i].EstimateCompleteTime # NaT)
                => /\ (lastOp.now - table[i].EstimateCompleteTime
                            = lastOp.threshold * TicksPerDay)
                        => \A row \in returned_rows : row.record # table[i]
                   /\ (lastOp.now - table[i].EstimateCompleteTime
                            = (lastOp.threshold + 1) * TicksPerDay)
                        => \E row \in returned_rows : row.record = table[i]

\* C13: identify_overdue_estimates returns exactly the records with the
\* estimate complete, not shipped, not sent, a completion time and more whole
\* days elapsed than the threshold, each with its count of elapsed days, and
\* never a record without completion time.
C13_OverdueEstimatesExact ==
    lastOp.op = "overdue_estimates"
        => /\ ~lastOp.error
           /\ returned_rows = due_rows(to_send_flags, "EstimateCompleteTime")
           /\ Len(lastOp.rows) = Cardinality(returned_rows)
           /\ \A row \in returned_rows : row.record.EstimateCompleteTime # NaT

\* C14: identify_overdue_reminders returns exactly the records with the
\* estimate sent, no reminder made, the estimate not approved, a sent time and
\* more whole days elapsed since then than the threshold.
C14_OverdueRemindersExact ==
    lastOp.op = "overdue_reminders"
        => /\ ~lastOp.error
           /\ returned_rows
                = due_rows(LAMBDA r : /\ lower(r.EstimateSentToEmail) # sna
                                      /\ lower(r.ReminderCompleted) = sno
                                      /\ lower(r.EstimateApproved) = sno,
                           "EstimateSentTime")
           /\ Len(lastOp.rows) = Cardinality(returned_rows)

\* C15: identify_overdue_for_shipping returns exactly the records with the
\* estimate approved, QA approved, not shipped, a QA time and more whole days
\* elapsed since then than the threshold.
C15_OverdueShippingExact ==
    lastOp.op = "overdue_shipping"
        => /\ ~lastOp.error
           /\ returned_rows
                = due_rows(LAMBDA r : /\ lower(r.EstimateApproved) = syes
                                      /\ lower(r.QAApproved) = syes
                                      /\ lower(r.Shipped) = sno,
                           "QAApprovedTime")
           /\ Len(lastOp.rows) = Cardinality(returned_rows)

is_yes(v) == lower(v) = syes

is_no(v) == lower(v) = sno

is_open(v) == lower(v) \in {sno, sna}

date_part(ts) == IF ts = NaT THEN NaT ELSE ts \div TicksPerDay

\* The rows of the table that a list of tasks is to name, and that it names.
rows_where(cond(_)) == {i \in 1..Len(table) : cond(table[i])}

names_exactly(tasks, due) ==
    /\ Len(tasks) = Cardinality(due)
    /\ \A i \in 1..Len(table) :
            i \in due <=> \E k \in 1..Len(tasks) :
                              tasks[k].RMA = table[i].RMA /\ tasks[k].SN = table[i].SN

C17_NeedsShippingExact ==
    lastOp.op = "generate"
        => names_exactly(lastOp.report.needs_shipping,
                rows_where(LAMBDA r : /\ is_yes(r.EstimateComplete)
                                      /\ is_yes(r.EstimateApproved)
                                      /\ is_yes(r.QAApproved)
                                      /\ is_open(r.Shipped)
                                      /\ r.QAApprovedTime # NaT
                                      /\ date_part(r.QAApprovedTime) = lastOp.report.date))

C17_Witness ==
    /\ lastOp.op = "generate"
    /\ Len(lastOp.report.needs_shipping) = 1
    /\ Len(table) = 1 /\ table[1].Shipped = sna /\ table[1].EstimateSentTime = NaT

\* C18: needs_estimate_creation names a record exactly when its estimate is
\* complete, not sent, and the date of the completion time is the day before
\* the report date; each task carries that day as its completion date.
C18_NeedsEstimateExact ==
    lastOp.op = "generate"
        => /\ names_exactly(lastOp.report.needs_estimate_creation,
                rows_where(LAMBDA r : /\ is_yes(r.EstimateComplete)
                                      /\ lower(r.EstimateSentToEmail) = sna
                                      /\ date_part(r.EstimateCompleteTime)
                                            = lastOp.report.date - 1))
           /\ \A k \in 1..Len(lastOp.report.needs_estimate_creation) :
                lastOp.report.needs_estimate_creation[k].EstCompleteDate
                    = lastOp.report.date - 1

C18_Witness ==
    /\ lastOp.op = "generate"
    /\ Len(lastOp.report.needs_estimate_creation) = 1
    /\ lastOp.report.needs_estimate_creation[1].EstCompleteDate = StartDay - 1
    /\ Len(table) = 1 /\ table[1].Shipped = sYes /\ table[1].QAApprovedTime = NaT

C20_StatusIsYesOrNo ==
    lastOp.op \in {"load", "generate"}
        => \A i \in 1..Len(table) : \A f \in StatusFields : table[i][f] \in {sYes, sNo}

DetectorColumns ==
    [overdue_estimates |->
        {"EstimateComplete", "EstimateSentToEmail", "Shipped", "EstimateCompleteTime"},
     overdue_reminders |->
        {"EstimateSentToEmail", "ReminderCompleted", "EstimateApproved", "EstimateSentTime"},
     overdue_shipping |->
        {"EstimateApproved", "QAApproved", "Shipped", "QAApprovedTime"}]

lacks_column(cols) == table # << >> /\ ~(cols \subseteq DOMAIN table[1])

\* C21: a detector or the report generator called on a table that lacks a
\* column it reads raises nothing and returns an empty result: no overdue row,
\* three empty task lists.
C21_AbsentFieldGivesEmptyResult ==
    /\ \A name \in DOMAIN DetectorColumns :
            (lastOp.op = name /\ lacks_column(DetectorColumns[name]))
                => (~lastOp.error /\ lastOp.rows = << >>)
    /\ (lastOp.op = "generate" /\ lacks_column(MaskColumns))
            => /\ ~lastOp.error
               /\ lastOp.report.needs_shipping = << >>
               /\ lastOp.report.needs_estimate_creation = << >>
               /\ lastOp.report.needs_reminder = << >>

\* The dates a catch-up run passed to the archive store.
processed_days(op) ==
    IF op.outcome \in {"done", "overflow"}
    THEN (op.last + 1)..(IF op.outcome = "overflow" THEN op.cursor - 1 ELSE op.cursor)
    ELSE {}

C23_LastDateIsLatestArchived ==
    (lastOp.op = "lastdate" /\ lastOp.up)
        => /\ \A i, j \in 1..Len(lastOp.generated) :
                    i < j => lastOp.generated[i].date >= lastOp.generated[j].date
           /\ rows_of(lastOp.generated) = rows_of(archive)
           /\ archive = << >> => lastOp.last = today - 1
           /\ archive # << >>
                => /\ lastOp.last \in existing_dates(archive)
                   /\ \A d \in existing_dates(archive) : d <= lastOp.last

\* No link: the null of the link column.
NoLink == << >>

link_rule(row) ==
    IF row.record.RMA \in {sEmpty, sNA} THEN row.link = NoLink
    ELSE row.link # NoLink /\ row.link = BC_FILTER \o quote_plus(row.record.RMA)

C25_CatchUpIsBounded ==
    lastOp.op = "catchup"
        => /\ lastOp.outcome \in {"nodata", "uptodate", "done", "overflow"}
           /\ Len(lastOp.generated) <= MAX_CATCH_UP_DAYS + 1
           /\ \A k \in 1..Len(lastOp.generated) :
                    /\ lastOp.generated[k].date \in (lastOp.last + 1)..today
                    /\ k > 1 => lastOp.generated[k].date > lastOp.generated[k - 1].date
           /\ \A d \in existing_dates(archive) : d <= today
           /\ lastOp.outcome = "done" => lastOp.cursor = today
           /\ lastOp.outcome = "overflow"
                => /\ lastOp.cursor = lastOp.last + MAX_CATCH_UP_DAYS + 2
                   /\ lastOp.cursor <= today

\* A run over a gap of more than 31 days that stopped after 31 reports.
C25_Witness ==
    /\ lastOp.op = "catchup"
    /\ lastOp.outcome = "overflow"
    /\ Len(lastOp.generated) = MAX_CATCH_UP_DAYS + 1
    /\ today - lastOp.last > MAX_CATCH_UP_DAYS + 1
    /\ lastOp.generated[MAX_CATCH_UP_DAYS + 1].date < today

gap_free(ws) ==
    /\ \A i, j \in 1..Len(ws) : ws[i].date = ws[j].date => i = j
    /\ \A d1, d2 \in existing_dates(ws) : \A d \in d1..d2 : d \in existing_dates(ws)

\* The days between the latest archived date and today; an empty archive
\* counts as archived up to yesterday, the default of the handler.
days_behind(ws, tdy) ==
    IF ws = << >> THEN 1
    ELSE tdy - (CHOOSE d \in existing_dates(ws) : \A e \in existing_dates(ws) : e <= d)

caught_up_or_closer ==
    \/ days_behind(archive', today) = 0
    \/ days_behind(archive', today) < days_behind(archive, today)

\* C26 as claimed: from an empty archive and with the stores in reach, the
\* archived dates are always a run of consecutive dates without duplicate,
\* none after today, and every catch-up run either brings the archive to
\* today or brings it closer to today, so that repeated runs reach today.
C26_GapFreeAndCatchesUp ==
    /\ [](gap_free(archive) /\ \A d \in existing_dates(archive) : d <= today)
    /\ [][lastOp'.op = "catchup" => caught_up_or_closer]_vars

\* C26 amended: the same, for the catch-up runs made with a table that is
\* not empty.
C26_GapFreeAndCatchesUpWithData ==
    /\ [](gap_free(archive) /\ \A d \in existing_dates(archive) : d <= today)
    /\ [][(lastOp'.op = "catchup" /\ table # << >>) => caught_up_or_closer]_vars

\* The second run after a long absence: the first stopped at the cap, this
\* one reached today, over a table updated in between.
C26_Witness ==
    /\ lastOp.op = "catchup"
    /\ lastOp.outcome = "done"
    /\ lastOp.prev = "overflow"
    /\ today \in existing_dates(archive)
    /\ Len(archive) > MAX_CATCH_UP_DAYS + 2
    /\ table # << >> /\ table # <<RecordA>>

\* C27: an end-of-day summary is made and archived only when the daily
\* report of today is in the daily archive at that moment, and from that
\* report; without it the handler makes no summary and leaves the EOD archive
\* as it is.  Every archived summary has the date of an archived daily report.
C27_EodNeedsTodaysReport ==
    /\ [](\A i \in 1..Len(eodArchive) : eodArchive[i].date \in existing_dates(archive))
    /\ [][lastOp'.op = "eod"
            => /\ today \notin existing_dates(archive)
                    => /\ lastOp'.outcome = "noreport"
                       /\ lastOp'.summary = NullSummary
                       /\ eodArchive' = eodArchive
               /\ (lastOp'.outcome = "done" \/ eodArchive' # eodArchive)
                    => /\ lastOp'.report \in rows_of(archive)
                       /\ lastOp'.report.date = today
                       /\ lastOp'.summary.date = today
                       /\ \A i \in 1..Len(eodArchive') :
                            (i > Len(eodArchive) \/ eodArchive'[i] # eodArchive[i])
                                => eodArchive'[i] = lastOp'.summary]_vars

\* The day after a summary was archived: the handler is asked for a summary
\* before today's report exists, and refuses.
C27_Witness ==
    /\ lastOp.op = "eod"
    /\ lastOp.up
    /\ lastOp.outcome = "noreport"
    /\ archive # << >>
    /\ eodArchive # << >>
    /\ today \notin existing_dates(archive)

\* The columns each stage update is to write, and the value of its first.
own_columns ==
    [sent |-> <<"Estimate Sent To Email", "Estimate Sent Time">>,
     shipped |-> <<"Shipped", "Shipped Time">>,
     reminder |-> <<"Reminder Completed", "Reminder Completed Time",
                    "Reminder Contact Method">>]

first_value == [sent |-> sMail, shipped |-> sYes, reminder |-> sYes]

is_own(name, header) == \E k \in 1..Len(own_columns[name]) : own_columns[name][k] = header

\* C28: whatever the order of the columns of the sheet, a stage update that
\* locates its row with the store in reach succeeds, writes its status and
\* its other fields in the columns under their headers, in that row, and
\* leaves every other cell of the sheet as it was.
C28_UpdateWritesOwnFieldsOnly ==
    [][\A name \in StoreOps :
        (lastOp'.op = name /\ lastOp'.up /\ lastOp'.row # -1)
            => /\ lastOp'.ok
               /\ sheet'.headers = sheet.headers
               /\ Len(sheet'.rows) = Len(sheet.rows)
               /\ \A r \in 1..Len(sheet.rows) : \A j \in 1..Len(sheet.headers) :
                    (r # lastOp'.row - 1 \/ ~is_own(name, sheet.headers[j]))
                        => sheet'.rows[r][j] = sheet.rows[r][j]
               /\ sheet'.rows[lastOp'.row - 1][index(sheet.headers, own_columns[name][1]) + 1]
                    = first_value[name]]_vars

\* C29 as claimed: with two sessions running the catch-up at once and their
\* reads of the existing dates and their appends interleaving, the archive
\* never holds two rows of the same date.
C29_ConcurrentCatchUpNeverDuplicates ==
    Cardinality(existing_dates(archive)) = Len(archive)

one_row_per_date(ws) == \A i, j \in 1..Len(ws) : ws[i].date = ws[j].date => i = j

\* The append session s makes next rests on dates that are no longer those
\* of the worksheet: another session appended since s read them.
overtaken(s) == calls[s].pc = "append" /\ calls[s].dates # existing_dates(archive)

\* C29 amended: with two sessions running the catch-up at once, the archive
\* comes to hold two rows of the same date only by an append of a session
\* whose read of the existing dates was overtaken by an append of the other
\* session; as long as no append is made between a session's read and its
\* own append, the archive keeps one row per date.
C29_DuplicateOnlyByOvertakenAppend ==
    [][(one_row_per_date(archive) /\ ~one_row_per_date(archive'))
            => \E s \in Sessions : overtaken(s) /\ calls'[s] # calls[s]]_vars

\* One session has appended a row on a read that was still current while the
\* other session is in its own loop, and the archive has one row per date.
C29_Witness ==
    /\ lastOp.op = "append"
    /\ Len(archive) >= 2
    /\ one_row_per_date(archive)
    /\ \E s \in Sessions : calls[s].pc \in {"read", "append"}

\* The records of the rows a detector returned.
records_of(rows) == {rows[k].record : k \in 1..Len(rows)}

\* The record has stayed in the to-send stage for more whole days than the
\* threshold at the clock time now.
overdue_to_send(r, now, days_threshold) ==
    /\ to_send_flags(r)
    /\ r.EstimateCompleteTime # NaT
    /\ (now - r.EstimateCompleteTime) \div TicksPerDay > days_threshold

====
